---- MODULE Spec2Model ----
(***************************************************************************)
(* A model of the traffic-obfuscation experiment code:                     *)
(*   sniffer.py            analyze_packets, main                           *)
(*   obfuscation.py        EncryptionObfuscator, PaddingObfuscator,        *)
(*                         TrafficShaper                                   *)
(*   experiment_runner.py  wait_for_ip, run_experiment, main               *)
(* Each part has its own specification over the shared variables; the      *)
(* variables of the other parts stay at their idle values.                 *)
(*                                                                         *)
(* Numbers.  Packet timestamps are whole seconds.  A Python float that the *)
(* code obtains by a division is kept exact as a fraction in lowest terms  *)
(* [num, den]; a float obtained by ** 0.5 is kept as [root_of |-> frac].   *)
(***************************************************************************)
EXTENDS Integers, Sequences, FiniteSets, TLC

VARIABLES
    \* sniffer.py
    sniffer_pc,      \* "capturing" (inside sniff()) or "reduced" (record written)
    args_duration,   \* --duration of the sniffer: the capture window, seconds
    packets,         \* the packets sniff() has stored so far, in arrival order
    stats,           \* the record analyze_packets returned, None before
    \* obfuscation.py, PaddingObfuscator
    padder_cfg,      \* [min_pad, max_pad] of the PaddingObfuscator under test
    pad_data,        \* argument of the last pad() call
    pad_result,      \* what the last pad() call returned or raised, None before
    \* obfuscation.py, EncryptionObfuscator
    constructed,     \* the constructor calls made: <<[key, result]>>
    \* obfuscation.py, TrafficShaper
    shaper_cfg,      \* [mode, min_delay, max_delay, rate_bps] of the shaper under test
    shape_size,      \* packet_size of the last shape() call, None when omitted
    shape_slept,     \* [slept]: the time.sleep of the last shape() call, None if none
    \* experiment_runner.py, main
    args_methods,    \* --methods, as its comma-separated pieces
    args_no_cleanup, \* --no-cleanup
    AES,             \* obfuscation.AES: TRUE when Crypto.Cipher was imported
    main_pc,         \* "start", "loop", "done" or "crashed" (uncaught exception)
    scenarios,       \* the list main iterates over
    scenario_idx,    \* position in that list of the scenario being run
    results,         \* results[scenario], for the scenarios that returned
    cleaned,         \* vm_manager.cleanup_vms was called
    error,           \* the exception that ended main, None otherwise
    files,           \* results_<scenario>.json, where there is one: the run that
                     \* wrote it, 0 for an earlier invocation of the program
    \* experiment_runner.py, run_experiment (the call in progress)
    run_pc,          \* position inside run_experiment, "idle" between calls
    wait_calls,      \* wait_for_ip calls made by this call
    polls,           \* get_domain_ip calls made by the last wait_for_ip
    src_ip, dest_ip,
    encryptor, padder, shaper,
    sniff_proc,      \* None, or [status]: "running", "exited_ok", "exited_error"
    dest_mac,        \* the destination's MAC address, None when not resolved
    seq,             \* probes sent so far
    sent_packets,    \* UDP packets sent so far
    last_sent        \* the last packet the sending loops handed to send/sendp

\* Python's None; every value that may be None is a record in the model
None == [none |-> TRUE]

(***************************************************************************)
(* Bounds of the model.                                                    *)
(***************************************************************************)
MaxPackets == 4     \* longest captured trace
MaxData == 2        \* longest payload handed to pad()
MaxPadBound == 2    \* largest min_pad / max_pad configured
MaxKeyLen == 33     \* longest key handed to the constructor
MaxConstructed == 2 \* constructor calls in one behaviour
MaxMethods == 3     \* most pieces in --methods
MaxUdp == 2         \* most iterations of the throughput loop in one run
MaxPadDraw == 1     \* pad lengths above the minimum followed in a run
MaxPacketSize == 3  \* largest packet_size handed to shape()

(***************************************************************************)
(* Arithmetic helpers.                                                     *)
(***************************************************************************)
Abs(x) == IF x < 0 THEN -x ELSE x

RECURSIVE GCD(_, _)
GCD(a, b) == IF b = 0 THEN a ELSE GCD(b, a % b)

\* the float n / d (d # 0), exact
Frac(n, d) ==
    LET g == GCD(Abs(n), Abs(d))
        s == IF d < 0 THEN -1 ELSE 1
    IN  [num |-> (s * n) \div g, den |-> (s * d) \div g]

RECURSIVE SumSeq(_)
SumSeq(s) == IF s = <<>> THEN 0 ELSE Head(s) + SumSeq(Tail(s))

(***************************************************************************)
(* sniffer.py                                                              *)
(***************************************************************************)
Hosts == {"A", "B"}
Times == {0, 1, 2}
Durations == {0, 1, 2}
PacketLens == {100}
IcmpIds == {4660}
IcmpSeqs == {0}
ECHO_REQUEST == 8
ECHO_REPLY == 0

\* what scapy hands to analyze_packets: len(pkt), pkt.time and the parsed
\* IP / ICMP fields; a UDP packet has no ICMP layer.
IcmpPackets ==
    [len : PacketLens, time : Times, proto : {"icmp"},
     type : {ECHO_REQUEST, ECHO_REPLY},
     src : Hosts, dst : Hosts, id : IcmpIds, seq : IcmpSeqs]

UdpPackets ==
    [len : PacketLens, time : Times, proto : {"udp"}, type : {0},
     src : {"A"}, dst : {"B"}, id : {0}, seq : {0}]

Packet == {p \in IcmpPackets : p.src # p.dst} \cup UdpPackets

\* req_times[key] = t
DictSet(d, key, t) ==
    [k \in DOMAIN d \cup {key} |-> IF k = key THEN t ELSE d[k]]

\* del req_times[key]
DictDel(d, key) == [k \in DOMAIN d \ {key} |-> d[k]]

EmptyDict == [k \in {} |-> 0]

\* MatchStep with the matched request left in req_times
MatchStep_KeepsPending(st, pkt) ==
    IF pkt.proto # "icmp" THEN st
    ELSE IF pkt.type = ECHO_REQUEST THEN
        [st EXCEPT !.req_times =
            DictSet(st.req_times, <<pkt.src, pkt.dst, pkt.id, pkt.seq>>, pkt.time)]
    ELSE IF pkt.type = ECHO_REPLY THEN
        LET key == <<pkt.dst, pkt.src, pkt.id, pkt.seq>>
        IN  IF key \in DOMAIN st.req_times
            THEN [st EXCEPT !.rtt_list =
                    Append(st.rtt_list, (pkt.time - st.req_times[key]) * 1000)]
            ELSE st
    ELSE st

\* one iteration of the matching loop, on [req_times, rtt_list]
MatchStep(st, pkt) ==
    IF pkt.proto # "icmp" THEN st
    ELSE IF pkt.type = ECHO_REQUEST THEN
        [st EXCEPT !.req_times =
            DictSet(st.req_times, <<pkt.src, pkt.dst, pkt.id, pkt.seq>>, pkt.time)]
    ELSE IF pkt.type = ECHO_REPLY THEN
        LET key == <<pkt.dst, pkt.src, pkt.id, pkt.seq>>
        IN  IF key \in DOMAIN st.req_times
            THEN [req_times |-> DictDel(st.req_times, key),
                  rtt_list |-> Append(st.rtt_list,
                                      (pkt.time - st.req_times[key]) * 1000)]
            ELSE st
    ELSE st

RECURSIVE MatchLoop(_, _)
MatchLoop(pkts, st) ==
    IF pkts = <<>> THEN st
    ELSE MatchLoop(Tail(pkts), MatchStep(st, Head(pkts)))

\* sum((x - mean) ** 2 for x in rtt_list) / (len(rtt_list) - 1), exact:
\* with S the sum and n the length, (x - S/n)^2 = (n*x - S)^2 / n^2.
Variance(rtt_list) ==
    LET n == Len(rtt_list)
        S == SumSeq(rtt_list)
        sq == [i \in 1..n |-> (n * rtt_list[i] - S) * (n * rtt_list[i] - S)]
    IN  Frac(SumSeq(sq), n * n * (n - 1))

Jitter(rtt_list) ==
    IF Len(rtt_list) > 1
    THEN [root_of |-> Variance(rtt_list)]
    ELSE [root_of |-> Frac(0, 1)]

\* analyze_packets with the average taken over the packet count
analyze_packets_MeanOverPackets(pkts) ==
    LET total_bytes == SumSeq([i \in 1..Len(pkts) |-> pkts[i].len])
        duration == IF pkts # <<>>
                    THEN pkts[Len(pkts)].time - pkts[1].time ELSE 0
        m == MatchLoop(pkts, [req_times |-> EmptyDict, rtt_list |-> <<>>])
        rtt_list == m.rtt_list
    IN  [packet_count |-> Len(pkts),
         total_bytes |-> total_bytes,
         capture_duration_sec |-> IF duration > 0 THEN duration ELSE 0,
         throughput_bps |-> IF duration > 0
                            THEN (total_bytes * 8) \div duration ELSE 0,
         packet_sizes |-> [i \in 1..Len(pkts) |-> pkts[i].len],
         avg_latency_ms |-> IF rtt_list # <<>>
                            THEN Frac(SumSeq(rtt_list), Len(pkts)) ELSE None,
         jitter_ms |-> IF rtt_list # <<>> THEN Jitter(rtt_list) ELSE None,
         latency_samples |-> rtt_list]

analyze_packets(pkts) ==
    LET total_bytes == SumSeq([i \in 1..Len(pkts) |-> pkts[i].len])
        duration == IF pkts # <<>>
                    THEN pkts[Len(pkts)].time - pkts[1].time ELSE 0
        m == MatchLoop(pkts, [req_times |-> EmptyDict, rtt_list |-> <<>>])
        rtt_list == m.rtt_list
    IN  [packet_count |-> Len(pkts),
         total_bytes |-> total_bytes,
         capture_duration_sec |-> IF duration > 0 THEN duration ELSE 0,
         throughput_bps |-> IF duration > 0
                            THEN (total_bytes * 8) \div duration ELSE 0,
         packet_sizes |-> [i \in 1..Len(pkts) |-> pkts[i].len],
         avg_latency_ms |-> IF rtt_list # <<>>
                            THEN Frac(SumSeq(rtt_list), Len(rtt_list)) ELSE None,
         jitter_ms |-> IF rtt_list # <<>> THEN Jitter(rtt_list) ELSE None,
         latency_samples |-> rtt_list]

snifferVars == <<sniffer_pc, args_duration, packets, stats>>
padVars == <<padder_cfg, pad_data, pad_result>>
encVars == <<constructed>>
shaperVars == <<shaper_cfg, shape_size, shape_slept>>
mainVars == <<args_methods, args_no_cleanup, AES, main_pc, scenarios,
              scenario_idx, results, cleaned, error, files>>
runVars == <<run_pc, wait_calls, polls, src_ip, dest_ip, encryptor, padder,
             shaper, sniff_proc, dest_mac, seq, sent_packets, last_sent>>
driverVars == <<mainVars, runVars>>
vars == <<snifferVars, padVars, encVars, shaperVars, driverVars>>

SnifferIdle ==
    /\ sniffer_pc = "idle" /\ args_duration = 0 /\ packets = <<>> /\ stats = None
PadIdle == padder_cfg = None /\ pad_data = <<>> /\ pad_result = None
EncIdle == constructed = <<>>
ShaperIdle == shaper_cfg = None /\ shape_size = None /\ shape_slept = None
RunIdle ==
    /\ run_pc = "idle" /\ wait_calls = 0 /\ polls = 0
    /\ src_ip = None /\ dest_ip = None
    /\ encryptor = None /\ padder = None /\ shaper = None
    /\ sniff_proc = None /\ dest_mac = None
    /\ seq = 0 /\ sent_packets = 0 /\ last_sent = None
DriverIdle ==
    /\ args_methods = <<>> /\ args_no_cleanup = FALSE /\ AES = TRUE
    /\ main_pc = "idle" /\ scenarios = <<>> /\ scenario_idx = 0
    /\ results = EmptyDict /\ cleaned = FALSE /\ error = None
    /\ files = EmptyDict
    /\ RunIdle

SnifferInit ==
    /\ sniffer_pc = "capturing"
    /\ args_duration \in Durations
    /\ packets = <<>>
    /\ stats = None
    /\ PadIdle /\ EncIdle /\ ShaperIdle /\ DriverIdle

\* sniff() stores one more packet seen on the interface during the window
Sniff ==
    /\ sniffer_pc = "capturing"
    /\ Len(packets) < MaxPackets
    /\ \E pkt \in Packet :
        /\ pkt.time <= args_duration
        /\ packets' = Append(packets, pkt)
    /\ UNCHANGED <<sniffer_pc, args_duration, stats>>
    /\ UNCHANGED <<padVars, encVars, shaperVars, driverVars>>

\* the window ends: main analyses the trace and writes the record
SnifferMain ==
    /\ sniffer_pc = "capturing"
    /\ stats' = analyze_packets(packets)
    /\ sniffer_pc' = "reduced"
    /\ UNCHANGED <<args_duration, packets>>
    /\ UNCHANGED <<padVars, encVars, shaperVars, driverVars>>

SnifferNext == Sniff \/ SnifferMain

SpecSniffer == SnifferInit /\ [][SnifferNext]_vars

(***************************************************************************)
(* obfuscation.py, PaddingObfuscator                                       *)
(***************************************************************************)
Bytes == {0, 120}
ByteStrings(n) == UNION {[1..k -> Bytes] : k \in 0..n}

\* the configurations PaddingObfuscator(min_pad, max_pad) is built with; the
\* constructor checks nothing, so min_pad > max_pad and min_pad < 0 occur
PadConfigs == [min_pad : -1..MaxPadBound, max_pad : 0..MaxPadBound]

\* random.randint(a, b) with b one too far
PadLengths_OneTooFar(cfg) ==
    IF cfg.max_pad > 0 THEN cfg.min_pad..(cfg.max_pad + 1) ELSE {0}

\* the values pad_length can take:
\* random.randint(self.min_pad, self.max_pad) if self.max_pad > 0 else 0
PadLengths(cfg) ==
    IF cfg.max_pad > 0 THEN cfg.min_pad..cfg.max_pad ELSE {0}

\* what pad(data) can return; randint raises ValueError on an empty range
pad(cfg, data) ==
    IF PadLengths(cfg) = {}
    THEN {[raised |-> "ValueError"]}
    ELSE UNION {
        IF pad_length <= 0
        THEN {[value |-> data]}
        ELSE {[value |-> data \o padding] : padding \in [1..pad_length -> Bytes]}
        : pad_length \in PadLengths(cfg)}

PadInit ==
    /\ padder_cfg \in PadConfigs
    /\ pad_data = <<>>
    /\ pad_result = None
    /\ SnifferIdle /\ EncIdle /\ ShaperIdle /\ DriverIdle

Pad ==
    /\ \E data \in ByteStrings(MaxData) :
        /\ pad_data' = data
        /\ pad_result' \in pad(padder_cfg, data)
    /\ UNCHANGED padder_cfg
    /\ UNCHANGED <<snifferVars, encVars, shaperVars, driverVars>>

PadNext == Pad

SpecPadding == PadInit /\ [][PadNext]_vars

(***************************************************************************)
(* obfuscation.py, EncryptionObfuscator                                    *)
(***************************************************************************)
KeyBytes == {1, 2}

\* the key argument: None, or the bytes b * n
Keys ==
    {None} \cup
    {[bytes |-> [i \in 1..n |-> b]] : n \in 0..MaxKeyLen, b \in KeyBytes}

\* __init__ with any multiple of 8 accepted as a key length
EncryptionObfuscator_AnyMultipleOf8(key) ==
    LET k == IF key = None THEN [i \in 1..16 |-> 1] ELSE key.bytes
    IN  IF Len(k) % 8 # 0
        THEN [raised |-> "ValueError"]
        ELSE [key |-> k]

\* EncryptionObfuscator(key): the object built, or the error raised
EncryptionObfuscator(key) ==
    LET k == IF key = None THEN [i \in 1..16 |-> 1] ELSE key.bytes
    IN  IF Len(k) \notin {16, 24, 32}
        THEN [raised |-> "ValueError"]
        ELSE [key |-> k]

EncInit ==
    /\ constructed = <<>>
    /\ SnifferIdle /\ PadIdle /\ ShaperIdle /\ DriverIdle

Construct ==
    /\ Len(constructed) < MaxConstructed
    /\ \E key \in Keys :
        constructed' =
            Append(constructed, [key |-> key, result |-> EncryptionObfuscator(key)])
    /\ UNCHANGED <<snifferVars, padVars, shaperVars, driverVars>>

EncNext == Construct

SpecEncryption == EncInit /\ [][EncNext]_vars

(***************************************************************************)
(* obfuscation.py, TrafficShaper                                           *)
(***************************************************************************)
\* delays are seconds, as fractions
Delays == {Frac(1, 100), Frac(1, 20), Frac(1, 10)}

\* rate_bps: None (the default), or a number of bits per second
Rates == {None} \cup {[v |-> r] : r \in {0, 8, 1000}}

\* packet_size: None (omitted), or a number of bytes
PacketSizes == {None} \cup {[v |-> n] : n \in 0..MaxPacketSize}

ShaperConfigs ==
    [mode : {"random", "constant", "burst"},
     min_delay : Delays, max_delay : Delays, rate_bps : Rates]

\* Python's truth value of an optional number
Truthy(x) == x # None /\ x.v # 0

\* values random.uniform(a, b) can return: a, b and the point half way
Uniform(a, b) ==
    {a, b, Frac(a.num * b.den + b.num * a.den, 2 * a.den * b.den)}

\* what shape(packet_size) can sleep: [slept |-> seconds], None for no sleep
shape(cfg, packet_size) ==
    IF cfg.mode = "random"
    THEN {[slept |-> d] : d \in Uniform(cfg.min_delay, cfg.max_delay)}
    ELSE IF cfg.mode = "constant"
    THEN IF Truthy(cfg.rate_bps) /\ Truthy(packet_size)
         THEN LET delay == Frac(packet_size.v * 8, cfg.rate_bps.v)
              IN  {[slept |-> IF delay.num > 0 THEN delay ELSE None]}
         ELSE {[slept |-> cfg.min_delay]}
    ELSE {[slept |-> None]}

ShaperInit ==
    /\ shaper_cfg \in ShaperConfigs
    /\ shape_size = None
    /\ shape_slept = None
    /\ SnifferIdle /\ PadIdle /\ EncIdle /\ DriverIdle

Shape ==
    /\ \E packet_size \in PacketSizes :
        /\ shape_size' = packet_size
        /\ shape_slept' \in shape(shaper_cfg, packet_size)
    /\ UNCHANGED shaper_cfg
    /\ UNCHANGED <<snifferVars, padVars, encVars, driverVars>>

ShaperNext == Shape

SpecShaper == ShaperInit /\ [][ShaperNext]_vars

(***************************************************************************)
(* experiment_runner.py                                                    *)
(***************************************************************************)
timeout == 15      \* wait_for_ip(domain, timeout=15)
ping_count == 5

\* the pieces of --methods between commas, as typed
RawTokens ==
    {"baseline", "encryption", "padding", "shaping", " Baseline ", ""}

\* --methods: "all" in either case, or up to MaxMethods pieces
Methods ==
    {<<"all">>, <<"ALL">>} \cup
    UNION {[1..n -> RawTokens] : n \in 1..MaxMethods}

\* m.strip().lower() on the pieces above
StripLower(m) ==
    CASE m = " Baseline " -> "baseline"
      [] m = "ALL" -> "all"
      [] OTHER -> m

\* m.strip() on the pieces above
Strip(m) == IF m = " Baseline " THEN "Baseline" ELSE m

\* [m.strip().lower() for m in args.methods.split(',') if m.strip()]
RECURSIVE Cleaned(_)
Cleaned(ms) ==
    IF ms = <<>> THEN <<>>
    ELSE IF Strip(Head(ms)) # ""
         THEN <<StripLower(Head(ms))>> \o Cleaned(Tail(ms))
         ELSE Cleaned(Tail(ms))

Contains(list, x) == \E k \in 1..Len(list) : list[k] = x

\* DetermineScenarios with baseline put in front whatever was asked for
DetermineScenarios_AlwaysInserts(methods) ==
    IF Len(methods) = 1 /\ StripLower(methods[1]) = "all" /\ Strip(methods[1]) = methods[1]
    THEN <<"baseline", "encryption", "padding", "shaping">>
    ELSE <<"baseline">> \o Cleaned(methods)

\* the scenario list main builds from args.methods; args.methods.lower()
\* is "all" when the one piece is "all" in some case, with no blanks
DetermineScenarios(methods) ==
    IF Len(methods) = 1 /\ StripLower(methods[1]) = "all" /\ Strip(methods[1]) = methods[1]
    THEN <<"baseline", "encryption", "padding", "shaping">>
    ELSE IF ~Contains(Cleaned(methods), "baseline")
         THEN <<"baseline">> \o Cleaned(methods)
         ELSE Cleaned(methods)

\* what wait_for_ip(domain) can return when the domain's address is addr:
\* the address at the n-th call of get_domain_ip, n <= timeout, or None after
\* timeout calls that all gave none
wait_for_ip(addr) ==
    {[ip |-> addr, polls |-> n] : n \in 1..timeout}
        \cup {[ip |-> None, polls |-> timeout]}

SourceAddr == [addr |-> "192.168.124.2"]
DestAddr == [addr |-> "192.168.124.3"]

\* the test of line 42 with "and" for "or"
IpsMissing_BothOnly(s, d) == s = None /\ d = None

\* not src_ip or not dest_ip
IpsMissing(s, d) == s = None \/ d = None

IpError == [raised |-> "RuntimeError", msg |-> "Could not obtain IP addresses"]
AesError == [raised |-> "RuntimeError", msg |-> "PyCrypto is not installed"]
OpenError == [raised |-> "FileNotFoundError", msg |-> "results file"]

Scenario == scenarios[scenario_idx]

DestMac == [mac |-> "52:54:00:00:00:03"]

base_payload == 500     \* len(b'x' * 500)
IpUdpHeaders == 28      \* IP(...)/UDP(...): 20 + 8 bytes
IpIcmpHeaders == 28     \* IP(...)/ICMP(...): 20 + 8 bytes
EtherHeader == 14       \* Ether(...)
NonceAndTag == 32       \* cipher.nonce + tag: 16 + 16 bytes

\* the packet or frame given to the send primitive
Handed(mac, packet_len) ==
    IF mac # None
    THEN [primitive |-> "sendp", len |-> packet_len + EtherHeader]
    ELSE [primitive |-> "send", len |-> packet_len]

\* one iteration of the probe loop (lines 85-93): what was done to the
\* probe, in order, and the sizes involved
ProbePipeline(shp, mac, n) ==
    [kind |-> "icmp", seq |-> n,
     steps |-> (IF shp # None THEN <<"shape">> ELSE <<>>) \o <<"send">>,
     pad_length |-> 0,
     payload_len |-> 0,
     packet_len |-> IpIcmpHeaders,
     shape_arg |-> IF shp # None THEN [v |-> IpIcmpHeaders] ELSE None,
     handed |-> Handed(mac, IpIcmpHeaders)]

\* the pad lengths followed in the throughput loop: the smallest ones the
\* padder can draw, and the largest
PadDraws(cfg) ==
    {k \in PadLengths(cfg) : k <= cfg.min_pad + MaxPadDraw \/ k = cfg.max_pad}

\* UdpPipeline with the shaping wait after the send
UdpPipeline_ShapeAfterSend(pd, en, shp, mac, pad_length, n) ==
    LET padded == IF pd # None /\ pad_length > 0
                  THEN base_payload + pad_length ELSE base_payload
        payload == IF en # None THEN NonceAndTag + padded ELSE padded
        pkt_len == IpUdpHeaders + payload
    IN  [kind |-> "udp", seq |-> n,
         steps |-> (IF pd # None THEN <<"pad">> ELSE <<>>)
                     \o (IF en # None THEN <<"encrypt">> ELSE <<>>)
                     \o <<"send">>
                     \o (IF shp # None THEN <<"shape">> ELSE <<>>),
         pad_length |-> IF pd # None THEN pad_length ELSE 0,
         payload_len |-> payload,
         packet_len |-> pkt_len,
         shape_arg |-> IF shp # None THEN [v |-> pkt_len] ELSE None,
         handed |-> Handed(mac, pkt_len)]

\* one iteration of the throughput loop (lines 105-118) with pad_length the
\* number pad() draws: what was done to the payload and the packet, in
\* order, and the sizes involved
UdpPipeline(pd, en, shp, mac, pad_length, n) ==
    LET padded == IF pd # None /\ pad_length > 0
                  THEN base_payload + pad_length ELSE base_payload
        payload == IF en # None THEN NonceAndTag + padded ELSE padded
        pkt_len == IpUdpHeaders + payload
    IN  [kind |-> "udp", seq |-> n,
         steps |-> (IF pd # None THEN <<"pad">> ELSE <<>>)
                     \o (IF en # None THEN <<"encrypt">> ELSE <<>>)
                     \o (IF shp # None THEN <<"shape">> ELSE <<>>)
                     \o <<"send">>,
         pad_length |-> IF pd # None THEN pad_length ELSE 0,
         payload_len |-> payload,
         packet_len |-> pkt_len,
         shape_arg |-> IF shp # None THEN [v |-> pkt_len] ELSE None,
         handed |-> Handed(mac, pkt_len)]


DriverInit ==
    /\ args_methods \in Methods
    /\ args_no_cleanup \in BOOLEAN
    /\ AES \in BOOLEAN
    /\ main_pc = "start"
    /\ scenarios = <<>>
    /\ scenario_idx = 0
    /\ results = EmptyDict
    /\ cleaned = FALSE
    /\ error = None
    /\ files = EmptyDict
    /\ RunIdle
    /\ SnifferIdle /\ PadIdle /\ EncIdle /\ ShaperIdle

\* an exception leaves run_experiment and, uncaught, main
Raise(e) ==
    /\ error' = e
    /\ main_pc' = "crashed"

\* main, lines 167-175
MainScenarios ==
    /\ main_pc = "start"
    /\ scenarios' = DetermineScenarios(args_methods)
    /\ scenario_idx' = 1
    /\ main_pc' = "loop"
    /\ UNCHANGED <<args_methods, args_no_cleanup, AES, results, cleaned, error, files>>
    /\ UNCHANGED runVars
    /\ UNCHANGED <<snifferVars, padVars, encVars, shaperVars>>

\* the loop calls run_experiment for the next scenario, which waits for the
\* source address (line 40)
RunWaitSource ==
    /\ main_pc = "loop" /\ run_pc = "idle"
    /\ scenario_idx <= Len(scenarios)
    /\ \E r \in wait_for_ip(SourceAddr) :
        /\ src_ip' = r.ip
        /\ polls' = r.polls
    /\ wait_calls' = 1
    /\ run_pc' = "source_waited"
    /\ dest_ip' = None
    /\ encryptor' = None /\ padder' = None /\ shaper' = None
    /\ sniff_proc' = None /\ dest_mac' = None
    /\ seq' = 0 /\ sent_packets' = 0 /\ last_sent' = None
    /\ UNCHANGED mainVars
    /\ UNCHANGED <<snifferVars, padVars, encVars, shaperVars>>

\* line 41
RunWaitDest ==
    /\ main_pc = "loop" /\ run_pc = "source_waited"
    /\ \E r \in wait_for_ip(DestAddr) :
        /\ dest_ip' = r.ip
        /\ polls' = r.polls
    /\ wait_calls' = wait_calls + 1
    /\ run_pc' = "dest_waited"
    /\ UNCHANGED <<src_ip, encryptor, padder, shaper, sniff_proc, dest_mac, seq,
                   sent_packets, last_sent>>
    /\ UNCHANGED mainVars
    /\ UNCHANGED <<snifferVars, padVars, encVars, shaperVars>>

\* lines 42-43: an address is missing
RunNoAddress ==
    /\ main_pc = "loop" /\ run_pc = "dest_waited"
    /\ IpsMissing(src_ip, dest_ip)
    /\ Raise(IpError)
    /\ UNCHANGED <<args_methods, args_no_cleanup, AES, scenarios, scenario_idx,
                   results, cleaned, files>>
    /\ UNCHANGED runVars
    /\ UNCHANGED <<snifferVars, padVars, encVars, shaperVars>>

\* lines 42-49: both addresses are there; the transforms of the scenario
RunInitTools ==
    /\ main_pc = "loop" /\ run_pc = "dest_waited"
    /\ ~IpsMissing(src_ip, dest_ip)
    /\ encryptor' = IF Scenario = "encryption"
                    THEN EncryptionObfuscator(None) ELSE None
    /\ padder' = IF Scenario = "padding"
                 THEN [min_pad |-> 0, max_pad |-> 50] ELSE None
    /\ shaper' = IF Scenario = "shaping"
                 THEN [mode |-> "random", min_delay |-> Frac(1, 100),
                       max_delay |-> Frac(1, 10), rate_bps |-> None]
                 ELSE None
    /\ polls' = 0
    /\ run_pc' = "tools_ready"
    /\ UNCHANGED <<wait_calls, src_ip, dest_ip, sniff_proc, dest_mac, seq,
                   sent_packets, last_sent>>
    /\ UNCHANGED mainVars
    /\ UNCHANGED <<snifferVars, padVars, encVars, shaperVars>>

\* lines 51-80: the sniffer subprocess is started; the destination's MAC
\* address is looked up, and may stay unknown
RunStartSniffer ==
    /\ main_pc = "loop" /\ run_pc = "tools_ready"
    /\ sniff_proc' = [status |-> "running"]
    /\ dest_mac' \in {None, DestMac}
    /\ run_pc' = "probes"
    /\ UNCHANGED <<wait_calls, polls, src_ip, dest_ip, encryptor, padder, shaper,
                   seq, sent_packets, last_sent>>
    /\ UNCHANGED mainVars
    /\ UNCHANGED <<snifferVars, padVars, encVars, shaperVars>>

\* lines 84-94: one probe; after the last one the throughput loop is set up
RunSendProbe ==
    /\ main_pc = "loop" /\ run_pc = "probes"
    /\ seq < ping_count
    /\ last_sent' = ProbePipeline(shaper, dest_mac, seq)
    /\ seq' = seq + 1
    /\ run_pc' = IF seq + 1 = ping_count THEN "udp" ELSE "probes"
    /\ UNCHANGED <<wait_calls, polls, src_ip, dest_ip, encryptor, padder, shaper,
                   sniff_proc, dest_mac, sent_packets>>
    /\ UNCHANGED mainVars
    /\ UNCHANGED <<snifferVars, padVars, encVars, shaperVars>>

\* the steps one iteration of the throughput loop applies, in order
UdpSteps == UdpPipeline(padder, encryptor, shaper, dest_mac, 0, 0).steps

\* lines 104-119: one iteration of the throughput loop
RunSendUdp ==
    /\ main_pc = "loop" /\ run_pc = "udp"
    /\ sent_packets < MaxUdp
    /\ ~(encryptor # None /\ ~AES)
    /\ \E pad_length \in (IF padder # None THEN PadDraws(padder) ELSE {0}) :
        last_sent' = UdpPipeline(padder, encryptor, shaper, dest_mac,
                                 pad_length, sent_packets)
    /\ sent_packets' = sent_packets + 1
    /\ UNCHANGED <<run_pc, wait_calls, polls, src_ip, dest_ip, encryptor, padder,
                   shaper, sniff_proc, dest_mac, seq>>
    /\ UNCHANGED mainVars
    /\ UNCHANGED <<snifferVars, padVars, encVars, shaperVars>>

\* line 109 with obfuscation.py line 24-25: encrypt raises without AES
RunEncryptFails ==
    /\ main_pc = "loop" /\ run_pc = "udp"
    /\ encryptor # None /\ ~AES
    /\ Raise(AesError)
    /\ UNCHANGED <<args_methods, args_no_cleanup, AES, scenarios, scenario_idx,
                   results, cleaned, files>>
    /\ UNCHANGED runVars
    /\ UNCHANGED <<snifferVars, padVars, encVars, shaperVars>>

\* lines 104, 120-127: the deadline has passed (it is at least a second
\* away when the loop starts, so one iteration was made) and the sending is
\* over; run_experiment waits for the sniffer, which has written its record
\* or has failed
RunWaitSniffer ==
    /\ main_pc = "loop" /\ run_pc = "udp"
    /\ sent_packets >= 1
    /\ \E wrote \in BOOLEAN :
        /\ sniff_proc' = [status |-> IF wrote THEN "exited_ok" ELSE "exited_error"]
        /\ files' = IF wrote THEN DictSet(files, Scenario, scenario_idx)
                    ELSE files
    /\ run_pc' = "sniffer_waited"
    /\ last_sent' = None
    /\ UNCHANGED <<args_methods, args_no_cleanup, AES, main_pc, scenarios,
                   scenario_idx, results, cleaned, error>>
    /\ UNCHANGED <<wait_calls, polls, src_ip, dest_ip, encryptor, padder, shaper,
                   dest_mac, seq, sent_packets>>
    /\ UNCHANGED <<snifferVars, padVars, encVars, shaperVars>>

\* line 128: there is no results file to open
RunOpenFails ==
    /\ main_pc = "loop" /\ run_pc = "sniffer_waited"
    /\ Scenario \notin DOMAIN files
    /\ Raise(OpenError)
    /\ UNCHANGED <<args_methods, args_no_cleanup, AES, scenarios, scenario_idx,
                   results, cleaned, files>>
    /\ UNCHANGED runVars
    /\ UNCHANGED <<snifferVars, padVars, encVars, shaperVars>>

\* lines 128-137 and 177: the record is read, the result returned and stored
RunReturn ==
    /\ main_pc = "loop" /\ run_pc = "sniffer_waited"
    /\ Scenario \in DOMAIN files
    /\ results' = DictSet(results, Scenario,
                          [record_of |-> files[Scenario], run |-> scenario_idx])
    /\ scenario_idx' = scenario_idx + 1
    /\ run_pc' = "idle"
    /\ UNCHANGED <<args_methods, args_no_cleanup, AES, main_pc, scenarios,
                   cleaned, error, files>>
    /\ UNCHANGED <<wait_calls, polls, src_ip, dest_ip, encryptor, padder, shaper,
                   sniff_proc, dest_mac, seq, sent_packets, last_sent>>
    /\ UNCHANGED <<snifferVars, padVars, encVars, shaperVars>>

\* lines 179-183: after the last scenario
MainCleanup ==
    /\ main_pc = "loop" /\ run_pc = "idle"
    /\ scenario_idx > Len(scenarios)
    /\ cleaned' = ~args_no_cleanup
    /\ main_pc' = "done"
    /\ UNCHANGED <<args_methods, args_no_cleanup, AES, scenarios, scenario_idx,
                   results, error, files>>
    /\ UNCHANGED runVars
    /\ UNCHANGED <<snifferVars, padVars, encVars, shaperVars>>

DriverNext ==
    \/ MainScenarios
    \/ RunWaitSource
    \/ RunWaitDest
    \/ RunNoAddress
    \/ RunInitTools
    \/ RunStartSniffer
    \/ RunSendProbe
    \/ RunSendUdp
    \/ RunEncryptFails
    \/ RunWaitSniffer
    \/ RunOpenFails
    \/ RunReturn
    \/ MainCleanup

SpecDriver == DriverInit /\ [][DriverNext]_vars

\* results_<scenario>.json files an earlier invocation of the program left
\* in the working directory (line 52: the name depends on the scenario only)
LeftOver ==
    {[n \in S |-> 0] : S \in SUBSET {"baseline", "encryption", "padding", "shaping"}}

\* main started with --methods all in a directory that may hold such files
RerunInit ==
    /\ args_methods = <<"all">>
    /\ args_no_cleanup \in BOOLEAN
    /\ AES \in BOOLEAN
    /\ main_pc = "start"
    /\ scenarios = <<>>
    /\ scenario_idx = 0
    /\ results = EmptyDict
    /\ cleaned = FALSE
    /\ error = None
    /\ files \in LeftOver
    /\ RunIdle
    /\ SnifferIdle /\ PadIdle /\ EncIdle /\ ShaperIdle

SpecRerun == RerunInit /\ [][DriverNext]_vars

(***************************************************************************)
(* Properties of sniffer.py, checked under SpecSniffer.                    *)
(***************************************************************************)
Reduced == sniffer_pc = "reduced"

IsRequest(p) == p.proto = "icmp" /\ p.type = ECHO_REQUEST
IsReply(p) == p.proto = "icmp" /\ p.type = ECHO_REPLY

\* reply packet q answers request packet p: reversed (src, dst), same id, seq
Answers(q, p) ==
    /\ IsRequest(p) /\ IsReply(q)
    /\ q.src = p.dst /\ q.dst = p.src /\ q.id = p.id /\ q.seq = p.seq

Requests == {i \in 1..Len(packets) : IsRequest(packets[i])}
Replies == {i \in 1..Len(packets) : IsReply(packets[i])}

\* an assignment of a (request, reply) pair of the trace to every sample
Pairings ==
    [1..Len(stats.latency_samples) -> Requests \X Replies]

OneToOne(f) ==
    /\ \A i \in DOMAIN f :
        /\ f[i][1] < f[i][2]
        /\ Answers(packets[f[i][2]], packets[f[i][1]])
        /\ stats.latency_samples[i] =
             (packets[f[i][2]].time - packets[f[i][1]].time) * 1000
    /\ \A i, j \in DOMAIN f :
        i # j => f[i][1] # f[j][1] /\ f[i][2] # f[j][2]

\* C1: request/reply matching is one-to-one: the samples can be assigned to
\* (request, reply) pairs of the trace, the reply after its request and
\* answering it, so that no request and no reply is used by two samples; a
\* trace of one request followed by its reply gives exactly the one sample
\* (t1 - t0) * 1000.
C1_OneToOneMatching ==
    Reduced =>
        /\ \E f \in Pairings : OneToOne(f)
        /\ (Len(packets) = 2 /\ Answers(packets[2], packets[1]))
            => stats.latency_samples =
                 <<(packets[2].time - packets[1].time) * 1000>>

\* a request, its reply and a duplicate of that reply: one sample
C1_Witness ==
    /\ Reduced
    /\ Len(packets) = 3
    /\ Answers(packets[2], packets[1])
    /\ Answers(packets[3], packets[1])
    /\ Len(stats.latency_samples) = 1

\* C2: every RTT sample is strictly positive, whatever the order of the
\* timestamps in the trace.
C2_SamplesPositive ==
    Reduced =>
        \A i \in 1..Len(stats.latency_samples) : stats.latency_samples[i] > 0

\* the sample standard deviation of xs (divisor n - 1), n >= 2:
\* (n * sum(x^2) - sum(x)^2) / (n * (n - 1)), under the root
SampleStdDev(xs) ==
    LET n == Len(xs)
        S == SumSeq(xs)
        Q == SumSeq([i \in 1..n |-> xs[i] * xs[i]])
    IN  [root_of |-> Frac(n * Q - S * S, n * (n - 1))]

\* C3: jitter_ms is null with fewer than 2 samples, and the sample standard
\* deviation (divisor n - 1) of the samples with 2 or more.
C3_JitterNullBelowTwo ==
    Reduced =>
        IF Len(stats.latency_samples) < 2
        THEN stats.jitter_ms = None
        ELSE stats.jitter_ms = SampleStdDev(stats.latency_samples)

\* C4: throughput_bps is total_bytes * 8 / duration with duration the capture
\* window when that is greater than 0, and 0 when it is 0; total_bytes is
\* the sum of the packet lengths.
C4_ThroughputOverWindow ==
    Reduced =>
        /\ stats.total_bytes =
             SumSeq([i \in 1..Len(packets) |-> packets[i].len])
        /\ stats.throughput_bps =
             IF args_duration > 0
             THEN (stats.total_bytes * 8) \div args_duration ELSE 0

\* C9: a trace with lost or unmatched probes, or an empty one, is reduced to
\* a well-formed record: no more samples than requests or than replies, avg_latency_ms null exactly when there is
\* no sample and the mean of the samples otherwise.
C9_UnmatchedProbesWellFormed ==
    Reduced =>
        /\ stats # None
        /\ stats.packet_count = Len(packets)
        /\ Len(stats.latency_samples) <= Cardinality(Requests)
        /\ Len(stats.latency_samples) <= Cardinality(Replies)
        /\ (stats.avg_latency_ms = None) <=> (stats.latency_samples = <<>>)
        /\ stats.latency_samples # <<>> =>
            /\ stats.avg_latency_ms.den > 0
            /\ stats.avg_latency_ms.num * Len(stats.latency_samples) =
                 SumSeq(stats.latency_samples) * stats.avg_latency_ms.den

\* a lost probe beside an answered one: one sample, a numeric average
C9_Witness ==
    /\ Reduced
    /\ Cardinality(Requests) = 2
    /\ Cardinality(Replies) = 1
    /\ Len(stats.latency_samples) = 1
    /\ stats.avg_latency_ms # None

\* the empty trace is reduced too
C9_WitnessEmpty == Reduced /\ packets = <<>> /\ stats.avg_latency_ms = None

(***************************************************************************)
(* Properties of obfuscation.py.                                           *)
(***************************************************************************)
PadCalled == pad_result # None

ValidPadConfig ==
    0 <= padder_cfg.min_pad /\ padder_cfg.min_pad <= padder_cfg.max_pad

\* C7: with 0 <= min_pad <= max_pad, pad returns the input followed by k
\* extra bytes, min_pad <= k <= max_pad, and the input itself when
\* max_pad = 0.  Checked under SpecPadding.
C7_PadWithinBounds ==
    (PadCalled /\ ValidPadConfig) =>
        /\ "value" \in DOMAIN pad_result
        /\ LET out == pad_result.value
               k == Len(out) - Len(pad_data)
           IN  /\ padder_cfg.min_pad <= k
               /\ k <= padder_cfg.max_pad
               /\ SubSeq(out, 1, Len(pad_data)) = pad_data
               /\ padder_cfg.max_pad = 0 => out = pad_data

\* min_pad = 1 < max_pad = 2 and a non-empty input padded by 2 bytes
C7_Witness ==
    /\ PadCalled
    /\ padder_cfg = [min_pad |-> 1, max_pad |-> 2]
    /\ Len(pad_data) > 0
    /\ "value" \in DOMAIN pad_result
    /\ Len(pad_result.value) = Len(pad_data) + 2

ValidKeyLens == {16, 24, 32}

\* C8: a key of a length other than 16, 24 or 32 makes the constructor fail
\* and gives no transform; no key gives the same default key at every
\* construction, and that key has a valid length.  Checked under
\* SpecEncryption.
C8_KeyLengthChecked ==
    /\ \A i \in 1..Len(constructed) :
        LET c == constructed[i]
        IN  /\ (c.key # None /\ Len(c.key.bytes) \notin ValidKeyLens)
                => c.result = [raised |-> "ValueError"]
            /\ c.key = None =>
                /\ "key" \in DOMAIN c.result
                /\ Len(c.result.key) \in ValidKeyLens
    /\ \A i, j \in 1..Len(constructed) :
        (constructed[i].key = None /\ constructed[j].key = None)
            => constructed[i].result = constructed[j].result

\* a construction with an 8-byte key, which failed, and one with no key
C8_Witness ==
    /\ Len(constructed) = 2
    /\ constructed[1].key # None
    /\ Len(constructed[1].key.bytes) = 8
    /\ "raised" \in DOMAIN constructed[1].result
    /\ constructed[2].key = None
    /\ "key" \in DOMAIN constructed[2].result

(***************************************************************************)
(* Properties of experiment_runner.py, checked under SpecDriver.           *)
(***************************************************************************)
MainEnded == main_pc \in {"done", "crashed"}

\* C5: a failure inside one scenario's run aborts only that scenario: when
\* main has ended, every other scenario of the batch has run and has its
\* result recorded, and cleanup was reached (unless --no-cleanup).
C5_FailureIsolated ==
    MainEnded =>
        /\ \A k \in 1..Len(scenarios) :
            (error = None \/ k # scenario_idx) => scenarios[k] \in DOMAIN results
        /\ ~args_no_cleanup => cleaned

Count(list, x) == Cardinality({k \in 1..Len(list) : list[k] = x})

Names == {"baseline", "encryption", "padding", "shaping"}

\* --methods is "all", or names a subset of the four scenarios: the pieces
\* that are not blank are distinct names
SelectsSubset ==
    \/ args_methods \in {<<"all">>, <<"ALL">>}
    \/ \A n \in Names : Count(Cleaned(args_methods), n) <= 1

TransformsSet == run_pc \notin {"idle", "source_waited", "dest_waited"}

\* C6: whatever subset --methods selects, the scenario list holds baseline
\* exactly once, and the baseline run has no encryptor, padder or shaper.
C6_BaselineOnceNoTransform ==
    (main_pc # "start" /\ SelectsSubset) =>
        /\ Count(scenarios, "baseline") = 1
        /\ (TransformsSet /\ Scenario = "baseline") =>
            /\ encryptor = None /\ padder = None /\ shaper = None
            /\ last_sent # None => last_sent.steps = <<"send">>

\* baseline was not asked for and is sending its throughput packets
C6_Witness ==
    /\ args_methods = <<"padding", "", "shaping">>
    /\ scenarios = <<"baseline", "padding", "shaping">>
    /\ Scenario = "baseline"
    /\ run_pc = "udp" /\ sent_packets = 1

CaptureStarted == sniff_proc # None

\* C10: wait_for_ip gives up only after timeout polls; when the source or
\* the destination address is missing, run_experiment fails: it never goes
\* on to start the capture or to send, each endpoint was waited for once,
\* and at the failure no capture runs, nothing was sent and the run has no
\* result.
C10_NoAddressFailsBeforeCapture ==
    /\ polls <= timeout
    /\ (run_pc = "source_waited" /\ src_ip = None) => polls = timeout
    /\ (run_pc = "dest_waited" /\ dest_ip = None) => polls = timeout
    /\ (CaptureStarted \/ seq > 0 \/ sent_packets > 0 \/ TransformsSet)
        => (src_ip # None /\ dest_ip # None /\ wait_calls = 2)
    /\ error = IpError =>
        /\ main_pc = "crashed"
        /\ src_ip = None \/ dest_ip = None
        /\ wait_calls = 2
        /\ ~CaptureStarted /\ seq = 0 /\ sent_packets = 0 /\ last_sent = None
        /\ \A n \in DOMAIN results : results[n].run # scenario_idx

\* the destination gave no address in the second scenario's run
C10_Witness ==
    /\ error = IpError
    /\ scenario_idx = 2
    /\ src_ip # None /\ dest_ip = None
    /\ polls = timeout

(***************************************************************************)
(* Properties of TrafficShaper, checked under SpecShaper.                  *)
(***************************************************************************)
ShapeCalled == shape_slept # None

RateConfigured == shaper_cfg.rate_bps # None /\ shaper_cfg.rate_bps.v > 0

\* the wait the claim gives for a packet size: size * 8 / rate, no wait
\* when that is 0 (size 0, or the size omitted)
ClaimedRateWait ==
    LET size == IF shape_size = None THEN 0 ELSE shape_size.v
    IN  IF size = 0 THEN None ELSE Frac(size * 8, shaper_cfg.rate_bps.v)

\* the transforms of the running scenario, in the order the claim gives
ActivePayloadSteps ==
    (IF padder # None THEN <<"pad">> ELSE <<>>)
        \o (IF encryptor # None THEN <<"encrypt">> ELSE <<>>)

ActiveShapeStep == IF shaper # None THEN <<"shape">> ELSE <<>>

\* the length of the throughput packet once the active transforms are done
FinalLength(p) ==
    IpUdpHeaders + base_payload
        + (IF padder # None THEN p.pad_length ELSE 0)
        + (IF encryptor # None THEN NonceAndTag ELSE 0)

\* "send" is the last step, and a "shape" step is right before it
ShapeThenSend(steps) ==
    /\ steps # <<>>
    /\ steps[Len(steps)] = "send"
    /\ \A i \in 1..Len(steps) : steps[i] = "send" => i = Len(steps)
    /\ \A i \in 1..Len(steps) : steps[i] = "shape" => i = Len(steps) - 1

C12_ConstantWaitBySize ==
    ShapeCalled =>
        /\ (shaper_cfg.mode = "constant" /\ RateConfigured)
            => shape_slept.slept = ClaimedRateWait
        /\ (shaper_cfg.mode = "constant" /\ shaper_cfg.rate_bps = None)
            => shape_slept.slept = shaper_cfg.min_delay
        /\ shaper_cfg.mode \notin {"random", "constant"}
            => shape_slept.slept = None

\* C13: the result of a scenario run is built from the record the sniffer
\* process of that same run wrote.  The file is read only once that process
\* has terminated, and no stored result was read from a file written by
\* another run or by an earlier invocation: when the sniffer of the run ends
\* without writing, no result is returned from a left-over file.
C13_ResultFromOwnCapture ==
    /\ run_pc = "sniffer_waited" =>
           sniff_proc.status \in {"exited_ok", "exited_error"}
    /\ \A n \in DOMAIN results : results[n].record_of = results[n].run

====
